---- MODULE Spec2Model ----
(***************************************************************************)
(* Model of the SpeakPace backend: services/audio_processor.py,            *)
(* services/speech_analyzer.py and the /api/analyze handler of main.py.    *)
(*                                                                         *)
(* Numbers.  Python floats are modelled by exact rationals.  A time        *)
(* produced by librosa.frames_to_time is kept as a sample offset           *)
(* (seconds * sample_rate); a duration is a numerator over a denominator   *)
(* (dur_num / dur_den seconds); a value rounded with round(x, 1) is kept   *)
(* in tenths.  A string is a sequence of one-character strings.            *)
(*                                                                         *)
(* Specifications.  Spec is one /api/analyze request, load_audio inlined;  *)
(* SpecSilence, SpecPace and SpecFillers run detect_silence, analyze_pace  *)
(* and detect_fillers alone over their bounded inputs.                     *)
(***************************************************************************)
EXTENDS Integers, Sequences, FiniteSets, TLC

VARIABLES
    pc,               \* position of the running call
    \* ---- AudioProcessor.detect_silence
    audio_len,        \* len(audio), in samples
    silent_frames,    \* rms_db < threshold_db, one flag per frame
    i,                \* loop index of "for i, is_silent in enumerate(...)"
    in_silence,
    start_time,       \* in samples (seconds * sample_rate)
    silent_segments,  \* sequence of <<start, end>>, in samples
    \* ---- SpeechAnalyzer.analyze_pace / detect_fillers
    transcript,       \* sequence of characters (None before transcribe)
    dur_num, dur_den, \* duration = dur_num / dur_den seconds
    pace_points,      \* sequence of [time, words_per_minute], in tenths
    fillers,          \* sequence of [word, count]
    \* ---- analyze_audio (main.py) and AudioProcessor.load_audio
    clip,             \* what the uploaded bytes decode to: [len, rms]
    files,            \* temporary files that exist on disk
    upload_created,   \* the request created its upload temp file
    wav_created,      \* load_audio created its intermediate wav file
    primary,          \* "untried" | "ok" | "failed"   librosa.load(file_path)
    fallback,         \* "untried" | "ok" | "failed"   pydub + librosa.load(tmp)
    load_state,       \* "not_called" | "running" | "returned" | "raised"
    audio_data,       \* the decoded clip, or None
    emphasis_data,    \* sequence of [time, intensity]; <<>> before the call
    raised,           \* the exception raised last, or None
    outcome,          \* "pending" | "ok" | "http400" | "http500" | "unhandled"
    response          \* <<the AnalysisResponse returned>>, or <<>>

silVars == <<audio_len, silent_frames, i, in_silence, start_time, silent_segments>>
txtVars == <<transcript, dur_num, dur_den, pace_points, fillers>>
reqVars == <<clip, files, upload_created, wav_created, primary, fallback,
             load_state, audio_data, emphasis_data, raised, outcome, response>>
vars == <<pc, silVars, txtVars, reqVars>>

None == "None"

\* ---------------------------------------------------------------- bounds
MaxSamples == 1536     \* longest clip given to detect_silence, in samples
MaxDur == 2600         \* longest duration given to analyze_pace, in 1/DurDen s
MaxWords == 2          \* most words in a transcript given to analyze_pace
MaxPieces == 4         \* most pieces in a transcript given to detect_fillers
MaxRms == 1            \* largest per-frame rms level of a request's clip
MaxHops == 2           \* longest request clip, in hops

\* ---------------------------------------------------- program constants
sample_rate == 16000
hop_length == 512
max_points == 10

\* ------------------------------------------------------------ arithmetic
Min(a, b) == IF a < b THEN a ELSE b
Max(a, b) == IF a > b THEN a ELSE b

\* round(num/den, 1), in tenths.  Python rounds the double to the nearest
\* tenth; when num/den is exactly halfway between two tenths the double
\* nearest to it may lie on either side, so the direction is an input.
RoundTenths(num, den, up) ==
    LET q == (10 * num) \div den
        r == (10 * num) % den
    IN  IF 2 * r < den THEN q
        ELSE IF 2 * r > den THEN q + 1
        ELSE IF up THEN q + 1 ELSE q

IsTie(num, den) == 2 * ((10 * num) % den) = den

\* the variables of the calls that are not running
IdleText ==
    /\ transcript = <<>> /\ dur_num = 0 /\ dur_den = 1
    /\ pace_points = <<>> /\ fillers = <<>>

IdleRequest ==
    /\ clip = None /\ files = {} /\ upload_created = FALSE /\ wav_created = FALSE
    /\ primary = "untried" /\ fallback = "untried" /\ load_state = "not_called"
    /\ audio_data = None /\ emphasis_data = <<>> /\ raised = None
    /\ outcome = "pending" /\ response = <<>>

IdleSilence ==
    /\ audio_len = 0 /\ silent_frames = <<>> /\ i = 0 /\ in_silence = FALSE
    /\ start_time = 0 /\ silent_segments = <<>>

\* =====================================================================
\* AudioProcessor.detect_silence
\* =====================================================================

\* librosa.feature.rms pads the signal (center=True): 1 + len // hop frames
NumFrames(n) == 1 + (n \div hop_length)

\* librosa.frames_to_time(i) = i * hop_length / sr, kept in samples
frames_to_time(k) == k * hop_length

\* every clip of up to MaxSamples samples with every pattern of silent
\* frames, and the 10.0 s all-zero clip (every frame silent)
InitSilence ==
    /\ pc = "sil_loop"
    /\ \/ /\ audio_len \in 1..MaxSamples
          /\ silent_frames \in [1..NumFrames(audio_len) -> BOOLEAN]
       \/ /\ audio_len = 10 * sample_rate
          /\ silent_frames = [k \in 1..NumFrames(audio_len) |-> TRUE]
    /\ i = 0
    /\ in_silence = FALSE
    /\ start_time = 0
    /\ silent_segments = <<>>
    /\ IdleText /\ IdleRequest

\* if is_silent and not in_silence
SilenceOpen ==
    /\ pc = "sil_loop"
    /\ i < Len(silent_frames)
    /\ silent_frames[i + 1] /\ ~in_silence
    /\ start_time' = frames_to_time(i)
    /\ in_silence' = TRUE
    /\ i' = i + 1
    /\ UNCHANGED <<pc, audio_len, silent_frames, silent_segments, txtVars, reqVars>>

\* elif not is_silent and in_silence
SilenceShut ==
    /\ pc = "sil_loop"
    /\ i < Len(silent_frames)
    /\ ~silent_frames[i + 1] /\ in_silence
    /\ silent_segments' = Append(silent_segments, <<start_time, frames_to_time(i)>>)
    /\ in_silence' = FALSE
    /\ i' = i + 1
    /\ UNCHANGED <<pc, audio_len, silent_frames, start_time, txtVars, reqVars>>

\* neither branch: the frame continues the current run
SilenceSame ==
    /\ pc = "sil_loop"
    /\ i < Len(silent_frames)
    /\ silent_frames[i + 1] = in_silence
    /\ i' = i + 1
    /\ UNCHANGED <<pc, audio_len, silent_frames, in_silence, start_time, silent_segments,
                   txtVars, reqVars>>

\* a closing time one frame late: the end of the last frame, not its time
LastFrameTime_OffByOne == frames_to_time(Len(silent_frames))

\* times[-1]
LastFrameTime == frames_to_time(Len(silent_frames) - 1)

\* after the loop: "if in_silence: append((start_time, times[-1]))", return
SilenceReturn ==
    /\ pc = "sil_loop"
    /\ i = Len(silent_frames)
    /\ silent_segments' = IF in_silence
                          THEN Append(silent_segments, <<start_time, LastFrameTime>>)
                          ELSE silent_segments
    /\ pc' = "sil_done"
    /\ UNCHANGED <<audio_len, silent_frames, i, in_silence, start_time, txtVars, reqVars>>

NextSilence == SilenceOpen \/ SilenceShut \/ SilenceSame \/ SilenceReturn

SpecSilence == InitSilence /\ [][NextSilence]_vars

\* AudioProcessor.get_duration: len(audio) / sample_rate, as <<num, den>>
get_duration(n) == <<n, sample_rate>>

\* a time kept in samples, in seconds, as <<num, den>>
Seconds(t) == <<t, sample_rate>>

\* comparison of two rationals <<num, den>> with positive denominators
RatEq(a, b) == IF a[2] = b[2] THEN a[1] = b[1] ELSE a[1] * b[2] = b[1] * a[2]
RatLeq(a, b) == IF a[2] = b[2] THEN a[1] <= b[1] ELSE a[1] * b[2] <= b[1] * a[2]

AllSilent == \A k \in 1..Len(silent_frames) : silent_frames[k]

\* C1: the list detect_silence returns is sorted ascending by start, its
\* intervals are pairwise non-overlapping, and every interval has start < end
\* (also when the silent run begins at the final frame).
C1_SilenceIntervalsWellFormed ==
    pc = "sil_done" =>
        /\ \A k \in 1..Len(silent_segments) : silent_segments[k][1] < silent_segments[k][2]
        /\ \A k, l \in 1..Len(silent_segments) :
              k < l => /\ silent_segments[k][1] < silent_segments[l][1]
                       /\ silent_segments[k][2] <= silent_segments[l][1]

\* C8 as stated: on a clip whose frames are all silent detect_silence returns
\* exactly the one interval (0, duration), duration = sampleCount / sampleRate.
C8_AllSilentIsZeroToDuration ==
    (pc = "sil_done" /\ AllSilent) =>
        /\ Len(silent_segments) = 1
        /\ silent_segments[1][1] = 0
        /\ RatEq(Seconds(silent_segments[1][2]), get_duration(audio_len))

\* C8 amended: on a clip whose frames are all silent detect_silence returns
\* exactly one interval; it starts at 0 and ends at the time of the last frame,
\* a whole number of hops that is at most the duration and less than one hop
\* short of it.
C8_AllSilentIsZeroToLastFrame ==
    (pc = "sil_done" /\ AllSilent) =>
        /\ Len(silent_segments) = 1
        /\ silent_segments[1][1] = 0
        /\ silent_segments[1][2] % hop_length = 0
        /\ RatLeq(Seconds(silent_segments[1][2]), get_duration(audio_len))
        /\ ~RatLeq(Seconds(silent_segments[1][2] + hop_length), get_duration(audio_len))

\* the 10.0 s all-zero clip: 313 frames, one interval (0, 9.984 s)
C8_Witness ==
    /\ pc = "sil_done" /\ AllSilent
    /\ audio_len = 10 * sample_rate
    /\ Len(silent_frames) = 313
    /\ silent_segments = << <<0, 159744>> >>

\* =====================================================================
\* Strings
\* =====================================================================

Whitespace == {" "}
NonWordChars == {" ", ",", "-"}

\* \w of the regular expression, over the characters the model uses
IsWordChar(c) == c \notin NonWordChars

\* str.lower(), one character
Lower(c) ==
    CASE c = "A" -> "a" [] c = "C" -> "c" [] c = "K" -> "k" [] c = "M" -> "m"
      [] c = "O" -> "o" [] c = "S" -> "s" [] c = "U" -> "u"
      [] OTHER -> c

lower(s) == [k \in 1..Len(s) |-> Lower(s[k])]

\* str.split(): the maximal runs of non-whitespace characters, in order
split(s) ==
    LET starts == {p \in 1..Len(s) : s[p] \notin Whitespace
                                      /\ (p = 1 \/ s[p - 1] \in Whitespace)}
        ends == {q \in 1..Len(s) : s[q] \notin Whitespace
                                    /\ (q = Len(s) \/ s[q + 1] \in Whitespace)}
        nth(set, k) == CHOOSE p \in set : Cardinality({q \in set : q <= p}) = k
    IN  [k \in 1..Cardinality(starts) |-> SubSeq(s, nth(starts, k), nth(ends, k))]

\* =====================================================================
\* SpeechAnalyzer.analyze_pace
\* =====================================================================

DurDen == 25           \* analyze_pace is given durations in steps of 1/25 s

\* min(10, max(1, int(duration / 10)))
num_points(num, den) == Min(max_points, Max(1, num \div (10 * den)))

\* a pace time that divides by the number of points, not of intervals
time_point_PerPoint(k, num, den, np, up) ==
    IF np > 1 THEN RoundTenths(k * num, den * np, up) ELSE 0

\* round((i * duration) / (num_points - 1) if num_points > 1 else 0, 1)
time_point(k, num, den, np, up) ==
    IF np > 1 THEN RoundTenths(k * num, den * (np - 1), up) ELSE 0

\* the loop indices whose time is exactly halfway between two tenths
TieIdx(num, den) ==
    LET np == num_points(num, den)
    IN  {k \in 0..(np - 1) : np > 1 /\ IsTie(k * num, den * (np - 1))}

\* ups: the indices whose halfway time rounds up; wup: the same for the rate
analyze_pace(t, num, den, ups, wup) ==
    LET word_count == Len(split(t))
    IN  IF num <= 0 \/ word_count = 0
        THEN << [time |-> 0, words_per_minute |-> 0] >>
        ELSE LET np == num_points(num, den)
             IN  [k \in 1..np |->
                    [time |-> time_point(k - 1, num, den, np, (k - 1) \in ups),
                     words_per_minute |-> RoundTenths(word_count * 60 * den, num, wup)]]

\* n words separated by single blanks
WordsText(n) == [k \in 1..(2 * n - 1) |-> IF k % 2 = 1 THEN "w" ELSE " "]

PaceTranscripts ==
    {WordsText(n) : n \in 0..MaxWords} \cup {<<" ">>, <<" ", "w", " ", " ", "w", " ">>}

\* every transcript with every duration, and the 65 s, 200-word scenario
InitPace ==
    /\ pc = "pace_call"
    /\ dur_den = DurDen
    /\ \/ transcript \in PaceTranscripts /\ dur_num \in 0..MaxDur
       \/ transcript = WordsText(200) /\ dur_num = 65 * DurDen
    /\ pace_points = <<>>
    /\ fillers = <<>>
    /\ IdleSilence /\ IdleRequest

CallAnalyzePace ==
    /\ pc = "pace_call"
    /\ \E ups \in SUBSET TieIdx(dur_num, dur_den), wup \in BOOLEAN :
          pace_points' = analyze_pace(transcript, dur_num, dur_den, ups, wup)
    /\ pc' = "pace_done"
    /\ UNCHANGED <<transcript, dur_num, dur_den, fillers, silVars, reqVars>>

NextPace == CallAnalyzePace

SpecPace == InitPace /\ [][NextPace]_vars

\* C3: analyze_pace returns between 1 and 10 points, every returned time lies
\* in [0, duration], and all points carry the same words_per_minute.
C3_PacePointsWithinDuration ==
    pc = "pace_done" =>
        /\ Len(pace_points) \in 1..10
        /\ \A k \in 1..Len(pace_points) :
              /\ pace_points[k].time >= 0
              /\ pace_points[k].time * dur_den <= 10 * dur_num
              /\ pace_points[k].words_per_minute = pace_points[1].words_per_minute

\* the number of points the claim gives: clamp(floor(duration / 10), 1, 10)
ClampedPoints(n) ==
    IF dur_num < 20 * dur_den THEN n = 1
    ELSE IF dur_num >= 100 * dur_den THEN n = 10
    ELSE n * 10 * dur_den <= dur_num /\ dur_num < (n + 1) * 10 * dur_den

\* x tenths is i * duration / (n - 1) rounded to one decimal
IsRoundedTime(x, idx, n) ==
    LET d == dur_den * (n - 1)
        e == x * d - 10 * idx * dur_num
    IN  2 * e <= d /\ 2 * e >= -d

PaceCurveShape ==
    LET n == Len(pace_points)
    IN  /\ ClampedPoints(n)
        /\ n = 1 => pace_points[1].time = 0
        /\ n > 1 =>
              /\ \A k \in 1..n : IsRoundedTime(pace_points[k].time, k - 1, n)
              /\ pace_points[1].time = 0
              /\ \A k \in 1..(n - 1) : pace_points[k].time < pace_points[k + 1].time

PaceCase == pc = "pace_done" /\ dur_num > 0 /\ Len(split(transcript)) >= 1

\* C6 as stated: numPoints = clamp(floor(duration/10), 1, 10); the i-th time is
\* i*duration/(numPoints-1) rounded to one decimal, the first time is 0, the
\* last time is duration, and the times are strictly increasing; a single
\* point has time 0.
C6_PaceTimesEndAtDuration ==
    PaceCase =>
        /\ PaceCurveShape
        /\ Len(pace_points) > 1 =>
              pace_points[Len(pace_points)].time * dur_den = 10 * dur_num

\* C6 amended: as stated, except that the last time is duration rounded to one
\* decimal (within 0.05 s of duration), not duration itself.
C6_PaceTimesEndAtRoundedDuration ==
    PaceCase =>
        /\ PaceCurveShape
        /\ Len(pace_points) > 1 =>
              LET e == pace_points[Len(pace_points)].time * dur_den - 10 * dur_num
              IN  2 * e <= dur_den /\ 2 * e >= -dur_den

\* the 65 s, 200-word scenario: 6 points at 0, 13, ..., 65 s, each 184.6 wpm
C6_Witness ==
    /\ pc = "pace_done"
    /\ dur_num = 65 * dur_den
    /\ Len(split(transcript)) = 200
    /\ pace_points = [k \in 1..6 |-> [time |-> 130 * (k - 1), words_per_minute |-> 1846]]

\* =====================================================================
\* SpeechAnalyzer.detect_fillers
\* =====================================================================

filler_words ==
    << <<"u", "m">>, <<"u", "h">>, <<"l", "i", "k", "e">>,
       <<"y", "o", "u", " ", "k", "n", "o", "w">>, <<"s", "o">> >>

\* s[k] exists and is a word character
WordCharAt(s, k) == k \in 1..Len(s) /\ IsWordChar(s[k])

\* \b just before s[k] (k = Len(s) + 1: at the end of s)
Boundary(s, k) == WordCharAt(s, k - 1) # WordCharAt(s, k)

\* the pattern without its closing \b
MatchAt_NoClosingBoundary(w, s, k) ==
    /\ k + Len(w) - 1 <= Len(s)
    /\ Boundary(s, k)
    /\ \A j \in 1..Len(w) : s[k + j - 1] = w[j]

\* r'\b' + re.escape(word) + r'\b' matches s at k
MatchAt(w, s, k) ==
    /\ k + Len(w) - 1 <= Len(s)
    /\ Boundary(s, k)
    /\ \A j \in 1..Len(w) : s[k + j - 1] = w[j]
    /\ Boundary(s, k + Len(w))

\* len(re.findall(pattern, s)): leftmost matches, scanned without overlap
RECURSIVE FindAllCount(_, _, _)
FindAllCount(w, s, k) ==
    IF k > Len(s) THEN 0
    ELSE IF MatchAt(w, s, k) THEN 1 + FindAllCount(w, s, k + Len(w))
    ELSE FindAllCount(w, s, k + 1)

detect_fillers(t) ==
    LET counted == [k \in 1..Len(filler_words) |->
                      [word |-> filler_words[k],
                       count |-> FindAllCount(filler_words[k], lower(t), 1)]]
        Kept(e) == e.count > 0
    IN  SelectSeq(counted, Kept)

\* the pieces transcripts are made of
Pieces ==
    { <<"u", "m">>, <<"u", "h">>, <<"l", "i", "k", "e">>, <<"y", "o", "u">>,
      <<"k", "n", "o", "w">>, <<"s", "o">>, <<"S", "O">>, <<"c", "i", "a", "l">>,
      <<" ">>, <<",">> }

RECURSIVE TextsUpTo(_)
TextsUpTo(n) ==
    IF n = 0 THEN {<<>>}
    ELSE LET shorter == TextsUpTo(n - 1)
         IN  shorter \cup {t \o p : t \in shorter, p \in Pieces}

\* "um like this is a test um"
ScenarioB ==
    <<"u","m"," ","l","i","k","e"," ","t","h","i","s"," ","i","s"," ","a"," ",
      "t","e","s","t"," ","u","m">>

InitFillers ==
    /\ pc = "fill_call"
    /\ transcript \in TextsUpTo(MaxPieces) \cup {ScenarioB}
    /\ dur_num = 0 /\ dur_den = 1
    /\ pace_points = <<>>
    /\ fillers = <<>>
    /\ IdleSilence /\ IdleRequest

CallDetectFillers ==
    /\ pc = "fill_call"
    /\ fillers' = detect_fillers(transcript)
    /\ pc' = "fill_done"
    /\ UNCHANGED <<transcript, dur_num, dur_den, pace_points, silVars, reqVars>>

NextFillers == CallDetectFillers

SpecFillers == InitFillers /\ [][NextFillers]_vars

\* the words of s: the maximal runs of word characters, as <<first, last>>
WordSpans(s) ==
    LET firsts == {k \in 1..Len(s) : WordCharAt(s, k) /\ ~WordCharAt(s, k - 1)}
        lasts == {k \in 1..Len(s) : WordCharAt(s, k) /\ ~WordCharAt(s, k + 1)}
    IN  {sp \in firsts \X lasts :
            /\ sp[1] <= sp[2]
            /\ \A e \in lasts : ~(sp[1] <= e /\ e < sp[2])}

SameIgnoringCase(s, sp, w) ==
    /\ sp[2] - sp[1] + 1 = Len(w)
    /\ \A j \in 1..Len(w) : Lower(s[sp[1] + j - 1]) = w[j]

\* whole-word occurrences of a lexicon entry: words equal to it, or, for the
\* two-word entry, a word "you" followed after one blank by a word "know"
WholeWordCount(w, s) ==
    IF \A j \in 1..Len(w) : IsWordChar(w[j])
    THEN Cardinality({sp \in WordSpans(s) : SameIgnoringCase(s, sp, w)})
    ELSE Cardinality({pr \in WordSpans(s) \X WordSpans(s) :
            /\ SameIgnoringCase(s, pr[1], <<"y", "o", "u">>)
            /\ SameIgnoringCase(s, pr[2], <<"k", "n", "o", "w">>)
            /\ pr[2][1] = pr[1][2] + 2
            /\ s[pr[1][2] + 1] = " "})

LexiconIndex(w) == CHOOSE k \in 1..Len(filler_words) : filler_words[k] = w

\* C4: detect_fillers returns, in lexicon order, exactly the lexicon entries
\* whose count is > 0, the count being the number of case-insensitive
\* whole-word occurrences; an occurrence inside a longer word is not counted.
C4_FillersAreWholeWordCounts ==
    pc = "fill_done" =>
        /\ \A k \in 1..Len(fillers) :
              /\ \E j \in 1..Len(filler_words) : filler_words[j] = fillers[k].word
              /\ fillers[k].count = WholeWordCount(fillers[k].word, transcript)
              /\ fillers[k].count > 0
        /\ \A j \in 1..Len(filler_words) :
              WholeWordCount(filler_words[j], transcript) > 0
                  => \E k \in 1..Len(fillers) : fillers[k].word = filler_words[j]
        /\ \A k, l \in 1..Len(fillers) :
              k < l => LexiconIndex(fillers[k].word) < LexiconIndex(fillers[l].word)

\* "so" is counted once although it also occurs inside "social"
C4_Witness ==
    /\ pc = "fill_done"
    /\ transcript = <<"s", "o", "c", "i", "a", "l", " ", "S", "O">>
    /\ fillers = << [word |-> <<"s", "o">>, count |-> 1] >>

\* =====================================================================
\* AudioProcessor.extract_intensity and SpeechAnalyzer.analyze_emphasis
\* =====================================================================

RECURSIVE SumSeq(_, _)
SumSeq(q, k) == IF k = 0 THEN 0 ELSE q[k] + SumSeq(q, k - 1)

MaxOf(q) == CHOOSE m \in {q[k] : k \in 1..Len(q)} : \A k \in 1..Len(q) : q[k] <= m

\* (rms / max(rms)) * 100 if max(rms) > 0 else rms; every value is
\* scaled[k] / unit
extract_intensity(audio) ==
    IF MaxOf(audio.rms) > 0
    THEN [scaled |-> [k \in 1..Len(audio.rms) |-> audio.rms[k] * 100],
          unit |-> MaxOf(audio.rms)]
    ELSE [scaled |-> audio.rms, unit |-> 1]

\* the attributes of the SpeechAnalyzer the application constructs: the class
\* has no __init__ and nothing assigns to the instance
speech_analyzer_attrs == {}

\* intens > mean(intensity) + std(intensity), on the scaled values a[k]:
\* n*a[k] - sum > sqrt(n*sum(a^2) - sum^2)
AboveThreshold(a, k) ==
    LET n == Len(a)
        total == SumSeq(a, n)
        squares == SumSeq([j \in 1..n |-> a[j] * a[j]], n)
        lead == n * a[k] - total
    IN  lead > 0 /\ lead * lead > n * squares - total * total

\* the body of analyze_emphasis once self.audio_processor has been read;
\* times and intensities are <<numerator, denominator>>
analyze_emphasis(audio, num, den) ==
    LET intensity == extract_intensity(audio)
        n == Len(intensity.scaled)
        point(k) == [time |-> <<(k - 1) * num, den * Max(1, n - 1)>>,
                     intensity |-> <<intensity.scaled[k], 100 * intensity.unit>>]
        peaks == {k \in 1..n : AboveThreshold(intensity.scaled, k)}
        nth(j) == CHOOSE k \in peaks : Cardinality({l \in peaks : l <= k}) = j
    IN  IF peaks = {}
        THEN << [time |-> <<num, 2 * den>>, intensity |-> <<1, 2>>] >>
        ELSE [j \in 1..Cardinality(peaks) |-> point(nth(j))]

\* =====================================================================
\* analyze_audio (POST /api/analyze) with AudioProcessor.load_audio inlined
\* =====================================================================

UploadTmp == "upload_tmp"     \* tmp_path of analyze_audio
WavTmp == "wav_tmp"           \* tmp_path of load_audio

Clips ==
    {[len |-> h * hop_length, rms |-> r] :
        h \in 0..MaxHops, r \in UNION {[1..NumFrames(k * hop_length) -> 0..MaxRms] : k \in 0..MaxHops}}

Sentinels ==
    { <<"C","o","u","l","d"," ","n","o","t"," ","u","n","d","e","r","s","t","a","n","d",
        " ","a","u","d","i","o">>,
      <<"C","o","u","l","d"," ","n","o","t"," ","r","e","q","u","e","s","t",
        " ","r","e","s","u","l","t","s">> }

RequestTranscripts ==
    Sentinels \cup {<<>>, <<"U", "m", " ", "s", "o", " ", "u", "m">>}

InitRequest ==
    /\ pc = "validate_type"
    /\ clip \in {c \in Clips : /\ Len(c.rms) = NumFrames(c.len)
                               /\ c.len = 0 => MaxOf(c.rms) = 0}
    /\ files = {} /\ upload_created = FALSE /\ wav_created = FALSE
    /\ primary = "untried" /\ fallback = "untried" /\ load_state = "not_called"
    /\ audio_data = None /\ emphasis_data = <<>> /\ raised = None
    /\ outcome = "pending" /\ response = <<>>
    /\ transcript = None /\ dur_num = 0 /\ dur_den = 1
    /\ pace_points = <<>> /\ fillers = <<>>
    /\ IdleSilence

\* if file.content_type not in allowed_types: raise HTTPException(400)
ValidateType ==
    /\ pc = "validate_type"
    /\ \E allowed \in BOOLEAN :
          IF allowed
          THEN pc' = "validate_size" /\ UNCHANGED outcome
          ELSE pc' = "done" /\ outcome' = "http400"
    /\ UNCHANGED <<silVars, txtVars, clip, files, upload_created, wav_created, primary,
                   fallback, load_state, audio_data, emphasis_data, raised, response>>

\* if len(contents) > max_file_size: raise HTTPException(400)
ValidateSize ==
    /\ pc = "validate_size"
    /\ \E small \in BOOLEAN :
          IF small
          THEN pc' = "create_tmp" /\ UNCHANGED outcome
          ELSE pc' = "done" /\ outcome' = "http400"
    /\ UNCHANGED <<silVars, txtVars, clip, files, upload_created, wav_created, primary,
                   fallback, load_state, audio_data, emphasis_data, raised, response>>

\* with tempfile.NamedTemporaryFile(delete=False, ...) as tmp:
CreateTmp ==
    /\ pc = "create_tmp"
    /\ files' = files \cup {UploadTmp}
    /\ upload_created' = TRUE
    /\ pc' = "write_tmp"
    /\ UNCHANGED <<silVars, txtVars, clip, wav_created, primary, fallback, load_state,
                   audio_data, emphasis_data, raised, outcome, response>>

\* tmp.write(contents); tmp_path = tmp.name -- before the try: an error here
\* closes the file (it is kept: delete=False) and leaves the handler
WriteTmp ==
    /\ pc = "write_tmp"
    /\ \E written \in BOOLEAN :
          IF written
          THEN pc' = "load_primary" /\ UNCHANGED <<raised, outcome>>
          ELSE pc' = "done" /\ raised' = "OSError" /\ outcome' = "unhandled"
    /\ UNCHANGED <<silVars, txtVars, clip, files, upload_created, wav_created, primary,
                   fallback, load_state, audio_data, emphasis_data, response>>

\* load_audio: try: audio, sr = librosa.load(file_path, ...); return audio
LoadPrimary ==
    /\ pc = "load_primary"
    /\ \E decoded \in BOOLEAN :
          IF decoded
          THEN /\ primary' = "ok" /\ audio_data' = clip /\ load_state' = "returned"
               /\ pc' = "get_duration"
          ELSE /\ primary' = "failed" /\ load_state' = "running"
               /\ pc' = "fb_from_file" /\ UNCHANGED audio_data
    /\ UNCHANGED <<silVars, txtVars, clip, files, upload_created, wav_created, fallback,
                   emphasis_data, raised, outcome, response>>

\* except Exception: audio_segment = AudioSegment.from_file(file_path)
FallbackFromFile ==
    /\ pc = "fb_from_file"
    /\ \E read \in BOOLEAN :
          IF read
          THEN /\ fallback' = "running" /\ pc' = "fb_create_wav"
               /\ UNCHANGED <<load_state, raised>>
          ELSE /\ fallback' = "failed" /\ load_state' = "raised"
               /\ raised' = "CouldntDecodeError" /\ pc' = "except"
    /\ UNCHANGED <<silVars, txtVars, clip, files, upload_created, wav_created, primary,
                   audio_data, emphasis_data, outcome, response>>

\* with tempfile.NamedTemporaryFile(suffix='.wav', delete=False) as tmp:
FallbackCreateWav ==
    /\ pc = "fb_create_wav"
    /\ files' = files \cup {WavTmp}
    /\ wav_created' = TRUE
    /\ pc' = "fb_export"
    /\ UNCHANGED <<silVars, txtVars, clip, upload_created, primary, fallback, load_state,
                   audio_data, emphasis_data, raised, outcome, response>>

\* audio_segment.export(tmp.name, format='wav'); tmp_path = tmp.name -- inside
\* the with, before the try/finally: an error here leaves load_audio
FallbackExport ==
    /\ pc = "fb_export"
    /\ \E exported \in BOOLEAN :
          IF exported
          THEN pc' = "fb_redecode" /\ UNCHANGED <<fallback, load_state, raised>>
          ELSE /\ fallback' = "failed" /\ load_state' = "raised"
               /\ raised' = "ExportError" /\ pc' = "except"
    /\ UNCHANGED <<silVars, txtVars, clip, files, upload_created, wav_created, primary,
                   audio_data, emphasis_data, outcome, response>>

\* try: audio, sr = librosa.load(tmp_path, ...); return audio
FallbackRedecode ==
    /\ pc = "fb_redecode"
    /\ \E decoded \in BOOLEAN :
          IF decoded
          THEN fallback' = "ok" /\ audio_data' = clip /\ UNCHANGED raised
          ELSE fallback' = "failed" /\ raised' = "DecodeError" /\ UNCHANGED audio_data
    /\ pc' = "fb_finally"
    /\ UNCHANGED <<silVars, txtVars, clip, files, upload_created, wav_created, primary,
                   load_state, emphasis_data, outcome, response>>

\* finally: if os.path.exists(tmp_path): os.remove(tmp_path)
FallbackFinally ==
    /\ pc = "fb_finally"
    /\ files' = files \ {WavTmp}
    /\ IF fallback = "ok"
       THEN load_state' = "returned" /\ pc' = "get_duration"
       ELSE load_state' = "raised" /\ pc' = "except"
    /\ UNCHANGED <<silVars, txtVars, clip, upload_created, wav_created, primary, fallback,
                   audio_data, emphasis_data, raised, outcome, response>>

\* duration = audio_processor.get_duration(audio_data)
GetDuration ==
    /\ pc = "get_duration"
    /\ dur_num' = get_duration(audio_data.len)[1]
    /\ dur_den' = get_duration(audio_data.len)[2]
    /\ pc' = "transcribe"
    /\ UNCHANGED <<silVars, transcript, pace_points, fillers, reqVars>>

\* transcript = speech_analyzer.transcribe(tmp_path): the text, one of the two
\* sentinel strings, or an exception of sr.AudioFile / the recognizer
Transcribe ==
    /\ pc = "transcribe"
    /\ \/ \E text \in RequestTranscripts :
             transcript' = text /\ pc' = "analyze_pace" /\ UNCHANGED raised
       \/ raised' = "ValueError" /\ pc' = "except" /\ UNCHANGED transcript
    /\ UNCHANGED <<silVars, dur_num, dur_den, pace_points, fillers, clip, files,
                   upload_created, wav_created, primary, fallback, load_state, audio_data,
                   emphasis_data, outcome, response>>

\* pace_data = speech_analyzer.analyze_pace(transcript, duration)
AnalyzePace ==
    /\ pc = "analyze_pace"
    /\ \E ups \in SUBSET TieIdx(dur_num, dur_den), wup \in BOOLEAN :
          pace_points' = analyze_pace(transcript, dur_num, dur_den, ups, wup)
    /\ pc' = "detect_fillers"
    /\ UNCHANGED <<silVars, transcript, dur_num, dur_den, fillers, reqVars>>

\* filler_words = speech_analyzer.detect_fillers(transcript)
DetectFillers ==
    /\ pc = "detect_fillers"
    /\ fillers' = detect_fillers(transcript)
    /\ pc' = "analyze_emphasis"
    /\ UNCHANGED <<silVars, transcript, dur_num, dur_den, pace_points, reqVars>>

RECURSIVE SumCounts(_, _)
SumCounts(fw, k) == IF k = 0 THEN 0 ELSE fw[k].count + SumCounts(fw, k - 1)

\* the AnalysisResponse of one request; avgPace in tenths
AnalysisResponse(emphasis, up) ==
    LET word_count == Len(split(transcript))
    IN  [duration |-> <<dur_num, dur_den>>,
         wordCount |-> word_count,
         avgPace |-> IF dur_num > 0
                     THEN RoundTenths(word_count * 60 * dur_den, dur_num, up)
                     ELSE 0,
         paceData |-> pace_points,
         fillerWords |-> fillers,
         emphasisData |-> emphasis,
         totalFillers |-> SumCounts(fillers, Len(fillers)),
         transcript |-> transcript]

\* emphasis_data = speech_analyzer.analyze_emphasis(audio_data, duration): its
\* first statement reads self.audio_processor, an AttributeError when the
\* instance has no such attribute; then the statistics, the response, return
AnalyzeEmphasis ==
    /\ pc = "analyze_emphasis"
    /\ IF "audio_processor" \in speech_analyzer_attrs
       THEN /\ emphasis_data' = analyze_emphasis(audio_data, dur_num, dur_den)
            /\ \E up \in BOOLEAN : response' = <<AnalysisResponse(emphasis_data', up)>>
            /\ outcome' = "ok"
            /\ pc' = "finally"
            /\ UNCHANGED raised
       ELSE /\ raised' = "AttributeError"
            /\ pc' = "except"
            /\ UNCHANGED <<emphasis_data, response, outcome>>
    /\ UNCHANGED <<silVars, txtVars, clip, files, upload_created, wav_created, primary,
                   fallback, load_state, audio_data>>

\* an except clause that answers with what has been computed so far
ExceptHandler_ReturnsPartial ==
    /\ pc = "except"
    /\ outcome' = "ok"
    /\ response' = <<[paceData |-> pace_points, fillerWords |-> fillers]>>
    /\ pc' = "finally"
    /\ UNCHANGED <<silVars, txtVars, clip, files, upload_created, wav_created, primary,
                   fallback, load_state, audio_data, emphasis_data, raised>>

\* except Exception as e: raise HTTPException(status_code=500, ...)
ExceptHandler ==
    /\ pc = "except"
    /\ outcome' = "http500"
    /\ pc' = "finally"
    /\ UNCHANGED <<silVars, txtVars, clip, files, upload_created, wav_created, primary,
                   fallback, load_state, audio_data, emphasis_data, raised, response>>

\* finally: if os.path.exists(tmp_path): os.remove(tmp_path)
FinallyCleanup ==
    /\ pc = "finally"
    /\ files' = files \ {UploadTmp}
    /\ pc' = "done"
    /\ UNCHANGED <<silVars, txtVars, clip, upload_created, wav_created, primary, fallback,
                   load_state, audio_data, emphasis_data, raised, outcome, response>>

NextRequest ==
    \/ ValidateType \/ ValidateSize \/ CreateTmp \/ WriteTmp
    \/ LoadPrimary \/ FallbackFromFile \/ FallbackCreateWav \/ FallbackExport
    \/ FallbackRedecode \/ FallbackFinally
    \/ GetDuration \/ Transcribe \/ AnalyzePace \/ DetectFillers \/ AnalyzeEmphasis
    \/ ExceptHandler \/ FinallyCleanup

Spec == InitRequest /\ [][NextRequest]_vars

\* C2: whenever load_audio took the fallback path and created its intermediate
\* wav file, the file no longer exists when load_audio returns or raises.
C2_IntermediateWavAlwaysDeleted ==
    (load_state \in {"returned", "raised"} /\ wav_created) => WavTmp \notin files

\* analyze_emphasis has been called and has returned or raised
EmphasisCalled == raised = "AttributeError" \/ emphasis_data # <<>>

\* the intensity curve of the decoded clip has zero variance
FlatCurve ==
    \A j, k \in 1..Len(extract_intensity(audio_data).scaled) :
        extract_intensity(audio_data).scaled[j] = extract_intensity(audio_data).scaled[k]

\* the single point {time: duration / 2, intensity: 0.5}
IsEmphasisFallback(points) ==
    /\ Len(points) = 1
    /\ points[1].time[1] * 2 * dur_den = dur_num * points[1].time[2]
    /\ points[1].intensity[1] * 2 = points[1].intensity[2]

\* C5: analyze_emphasis, called on the application's SpeechAnalyzer for a clip
\* with a flat intensity curve, returns exactly the one point
\* {duration / 2, 0.5} and never ends in an error.
C5_FlatCurveGivesFallbackPoint ==
    (EmphasisCalled /\ FlatCurve) =>
        /\ raised # "AttributeError"
        /\ IsEmphasisFallback(emphasis_data)

\* the clip was decoded, is empty or has zero energy, and was transcribed
EmptyOrSilentClip ==
    /\ load_state = "returned"
    /\ transcript # None
    /\ audio_data.len = 0 \/ MaxOf(audio_data.rms) = 0

\* C7: a request on a successfully decoded clip that is empty or has zero
\* energy never ends in the failure outcome: it returns an AnalysisResult
\* with the pace fallback point when the transcript has no words, avgPace 0
\* when duration <= 0, and the emphasis fallback point.
C7_EmptyOrSilentClipIsNotFatal ==
    (pc = "done" /\ EmptyOrSilentClip) =>
        /\ outcome = "ok"
        /\ Len(response) = 1
        /\ Len(split(transcript)) = 0 =>
              response[1].paceData = << [time |-> 0, words_per_minute |-> 0] >>
        /\ dur_num <= 0 => response[1].avgPace = 0
        /\ IsEmphasisFallback(response[1].emphasisData)

\* C9: the primary decode is attempted first, the fallback only after the
\* primary has failed, the first success is what load_audio returns; when both
\* fail load_audio raises and the request ends in the failure outcome (HTTP
\* 500) without any AnalysisResult.
C9_DecodeOrderAndFailure ==
    /\ load_state # "not_called" => primary # "untried"
    /\ fallback # "untried" => primary = "failed"
    /\ load_state = "returned" =>
          /\ audio_data = clip
          /\ \/ primary = "ok" /\ fallback = "untried"
             \/ primary = "failed" /\ fallback = "ok"
    /\ (primary = "failed" /\ fallback = "failed" /\ pc # "fb_finally") =>
          load_state = "raised"
    /\ load_state = "raised" => primary = "failed" /\ fallback = "failed"
    /\ (pc = "done" /\ load_state = "raised") => outcome = "http500" /\ response = <<>>

\* both decodes failed, the second one on the intermediate wav file
C9_Witness ==
    /\ pc = "done"
    /\ primary = "failed" /\ fallback = "failed" /\ wav_created
    /\ raised = "DecodeError"
    /\ outcome = "http500" /\ response = <<>>

\* C10: once analyze_audio has created the temporary file that holds the
\* upload, the file no longer exists when the request finishes, whatever the
\* exit path (a failed write of the upload included).
C10_UploadTmpAlwaysDeleted ==
    (pc = "done" /\ upload_created) => UploadTmp \notin files

====
